---- MODULE Spec2Model ----
(***************************************************************************)
(* A model of main.py: the in-memory lead store, the concurrent scraper,  *)
(* the caching LLM client, the chatbot's question routing and the         *)
(* Streamlit session that drives the lead-capture form.                   *)
(*                                                                         *)
(* Text is modelled as a tuple of one-character strings, so that lower(), *)
(* strip(), startswith() and the substring test `k in s` are computed as  *)
(* Python computes them.                                                   *)
(***************************************************************************)
EXTENDS Integers, Sequences, FiniteSets, TLC

\* Python's None.
None == "None"

----------------------------------------------------------------------------
(* Bounds of the model *)

\* Chat questions submitted between two resets of the session.
MaxQuestions == 4
\* Lead records the store may hold.
MaxLeads == 1
\* Create clicks in one session.
MaxCreates == 2
\* Questions asked of the chatbot exercised on its own.
MaxCalls == 2
\* Submit/Skip clicks in one run of the lead form.
MaxClicks == 4
\* Fetches that finish before the loop of scrape_website enters as_completed.
MaxEarly == 2

----------------------------------------------------------------------------
(* Text helpers *)

Upper == <<"A", "B", "C", "D", "E", "F", "G", "H", "I", "J", "K", "L", "M",
           "N", "O", "P", "Q", "R", "S", "T", "U", "V", "W", "X", "Y", "Z">>
Lower == <<"a", "b", "c", "d", "e", "f", "g", "h", "i", "j", "k", "l", "m",
           "n", "o", "p", "q", "r", "s", "t", "u", "v", "w", "x", "y", "z">>
Other == <<"0", "1", "2", "3", "4", "5", "6", "7", "8", "9",
           " ", "?", "!", "@", ".", "/", ":", "-", "+">>
Alphabet == Upper \o Lower \o Other

\* str.lower() on one character.
lower_char(c) ==
    IF \E i \in 1..Len(Upper) : Upper[i] = c
    THEN Lower[CHOOSE i \in 1..Len(Upper) : Upper[i] = c]
    ELSE c

\* str.lower()
lower(s) == [i \in 1..Len(s) |-> lower_char(s[i])]

\* `k in s` for strings: k occurs in s as a contiguous substring.
contains(s, k) ==
    \E i \in 0..(Len(s) - Len(k)) : SubSeq(s, i + 1, i + Len(k)) = k

\* s.startswith(p)
startswith(s, p) == Len(s) >= Len(p) /\ SubSeq(s, 1, Len(p)) = p

IsSpace(c) == c = " "

RECURSIVE lstrip(_)
lstrip(s) == IF s # <<>> /\ IsSpace(Head(s)) THEN lstrip(Tail(s)) ELSE s

RECURSIVE rstrip(_)
rstrip(s) ==
    IF s # <<>> /\ IsSpace(s[Len(s)]) THEN rstrip(SubSeq(s, 1, Len(s) - 1)) ELSE s

\* str.strip()
strip(s) == rstrip(lstrip(s))

\* A user-facing message: its kind, a status code (0 when it has none) and
\* the texts formatted into it.
Msg(kind, code, args) == [kind |-> kind, code |-> code, args |-> args]

----------------------------------------------------------------------------
(* Scraped text *)

\* One visible text line of a fetched page: an identifying text, the length
\* of the stripped line, and the e-mail and phone matches the two patterns
\* of scrape_website find in it.
Line(text, len, emails, phones) ==
    [text |-> text, len |-> len, emails |-> emails, phones |-> phones]

\* s[:n] on a sequence.
Take(s, n) == SubSeq(s, 1, IF Len(s) < n THEN Len(s) ELSE n)

\* ('\n'.join(lines))[:budget]: the lines that fit in budget characters, the
\* line the cut falls in shortened (and without the matches the cut may have
\* broken), a joining newline counting one character.
RECURSIVE TruncateChars(_, _)
TruncateChars(lines, budget) ==
    IF lines = <<>> \/ budget <= 0 THEN <<>>
    ELSE IF Head(lines).len >= budget
         THEN IF Head(lines).len = budget THEN <<Head(lines)>>
              ELSE <<Line(Head(lines).text, budget, <<>>, <<>>)>>
         ELSE <<Head(lines)>> \o TruncateChars(Tail(lines), budget - Head(lines).len - 1)

\* What scrape_page returns for "no page".
NoPage == <<>>
\* An exception leaving scrape_page, which future.result() raises again.
Raised == [raised |-> TRUE]

MinLineLen == 25
MaxLines == 50
MaxContent == 4000

\* scrape_page without its try/except: an exception of requests.get leaves it.
scrape_page_unguarded(url, resp) ==
    IF resp.kind = "exc" THEN Raised
    ELSE IF resp.status # 200 THEN NoPage
    ELSE LET lines == Take(SelectSeq(resp.lines, LAMBDA l : l.len > MinLineLen), MaxLines)
         IN  IF lines # <<>>
             THEN [url |-> url, content |-> TruncateChars(lines, MaxContent)]
             ELSE NoPage

\* FastScraper.scrape_page: resp is the outcome of requests.get, either an
\* exception (timeout, connection error) or a response with a status and
\* the text lines left after the script/style/nav/footer tags are removed.
scrape_page(url, resp) ==
    IF resp.kind = "exc" THEN NoPage
    ELSE IF resp.status # 200 THEN NoPage
    ELSE LET lines == Take(SelectSeq(resp.lines, LAMBDA l : l.len > MinLineLen), MaxLines)
         IN  IF lines # <<>>
             THEN [url |-> url, content |-> TruncateChars(lines, MaxContent)]
             ELSE NoPage

\* The candidate paths of scrape_website, in submission order.
Paths == << <<>>,
            <<"/", "a", "b", "o", "u", "t">>,
            <<"/", "s", "e", "r", "v", "i", "c", "e", "s">>,
            <<"/", "c", "o", "n", "t", "a", "c", "t">>,
            <<"/", "p", "r", "o", "d", "u", "c", "t", "s">> >>

NumUrls == Len(Paths)

\* The scheme check and the url list of scrape_website.
normalize_base(base_url) ==
    IF ~startswith(base_url, <<"h", "t", "t", "p">>)
    THEN <<"h", "t", "t", "p", "s", ":", "/", "/">> \o base_url
    ELSE base_url

candidate_urls(base_url) ==
    [i \in 1..NumUrls |-> normalize_base(base_url) \o Paths[i]]

\* pages after the as_completed loop has consumed the futures in `order`
\* (a sequence of url indices): each result that is a page is appended.
RECURSIVE collect_pages(_, _, _)
collect_pages(urls, resps, order) ==
    IF order = <<>> THEN <<>>
    ELSE LET result == scrape_page(urls[Head(order)], resps[Head(order)])
         IN  (IF result # NoPage THEN <<result>> ELSE <<>>)
             \o collect_pages(urls, resps, Tail(order))

\* all_text: the lines of every page, in page order.
RECURSIVE all_lines(_)
all_lines(pages) ==
    IF pages = <<>> THEN <<>> ELSE Head(pages).content \o all_lines(Tail(pages))

RECURSIVE all_matches(_, _)
all_matches(lines, field) ==
    IF lines = <<>> THEN {}
    ELSE {Head(lines)[field][i] : i \in 1..Len(Head(lines)[field])}
         \cup all_matches(Tail(lines), field)

MaxContacts == 3

\* list(matches)[:3], without the set: repeats survive.
capped_lists_with_repeats(S) ==
    LET n == IF Cardinality(S) < MaxContacts THEN Cardinality(S) ELSE MaxContacts
    IN  [1..n -> S]

\* list(set(matches))[:3]: the set has no order of its own, so any 3 distinct
\* matches in any order (all of them when there are at most 3).
capped_lists(S) ==
    LET n == IF Cardinality(S) < MaxContacts THEN Cardinality(S) ELSE MaxContacts
    IN  {q \in [1..n -> S] : \A i, j \in 1..n : q[i] = q[j] => i = j}

\* Every contact_info scrape_website may return for these pages.
contact_infos(pages) ==
    {[emails |-> e, phones |-> ph] :
        e \in capped_lists(all_matches(all_lines(pages), "emails")),
        ph \in capped_lists(all_matches(all_lines(pages), "phones"))}

\* The progress callback's calls during the loop over `order`.
callback_calls(urls, order) ==
    [i \in 1..Len(order) |-> <<i, NumUrls, urls[order[i]]>>]

----------------------------------------------------------------------------
(* SmartAI *)

NO_KEY_MSG == Msg("api_key_not_set", 0, <<>>)
AUTH_FAILED_MSG == Msg("auth_failed", 0, <<>>)
NO_CREDITS_MSG == Msg("insufficient_credits", 0, <<>>)
RATE_LIMIT_MSG == Msg("rate_limit", 0, <<>>)
CONNECTION_MSG == Msg("connection_issues", 0, <<>>)
NOT_READY_MSG == Msg("not_ready", 0, <<>>)

CharCode(c) == CHOOSE i \in 1..Len(Alphabet) : Alphabet[i] = c

RECURSIVE SumCodes(_)
SumCodes(s) == IF s = <<>> THEN 0 ELSE CharCode(Head(s)) + SumCodes(Tail(s))

RECURSIVE SumLens(_)
SumLens(lines) == IF lines = <<>> THEN 0 ELSE Head(lines).len + SumLens(Tail(lines))

\* The number of values the 12 hexadecimal digits of the key can take, scaled
\* down so that two prompts of the model can share a key as two texts can
\* share the first 48 bits of an MD5.
KeySpace == 5

\* hashlib.md5(prompt.encode()).hexdigest()[:12]: a digest of the prompt's
\* whole text, cut to a fixed width; it is deterministic and not injective.
cache_key(prompt) ==
    (SumCodes(prompt.company) + 3 * SumCodes(prompt.question)
        + SumLens(prompt.context)) % KeySpace

ErrorTextLen == 100

\* call_llm without the cache lookup: every call with a key goes to the network.
call_llm_no_lookup(key, cache, prompt, resp) ==
    IF ~key THEN [ret |-> NO_KEY_MSG, cache |-> cache, requests |-> 0]
    ELSE IF resp.kind = "exc" \/ (resp.status = 200 /\ resp.json = "invalid")
    THEN [ret |-> CONNECTION_MSG, cache |-> cache, requests |-> 1]
    ELSE IF resp.status = 200 /\ resp.json = "choices"
    THEN [ret |-> Msg("completion", 0, <<strip(resp.content)>>),
          cache |-> (cache_key(prompt) :> Msg("completion", 0, <<strip(resp.content)>>))
                    @@ cache,
          requests |-> 1]
    ELSE [ret |-> CASE resp.status = 401 -> AUTH_FAILED_MSG
                    [] resp.status = 402 -> NO_CREDITS_MSG
                    [] resp.status = 429 -> RATE_LIMIT_MSG
                    [] OTHER -> Msg("api_error", resp.status,
                                    <<Take(resp.text, ErrorTextLen)>>),
          cache |-> cache, requests |-> 1]

\* call_llm storing the status-derived messages too, as it stores completions.
call_llm_caches_errors(key, cache, prompt, resp) ==
    IF ~key THEN [ret |-> NO_KEY_MSG, cache |-> cache, requests |-> 0]
    ELSE IF cache_key(prompt) \in DOMAIN cache
    THEN [ret |-> cache[cache_key(prompt)], cache |-> cache, requests |-> 0]
    ELSE IF resp.kind = "exc" \/ (resp.status = 200 /\ resp.json = "invalid")
    THEN [ret |-> CONNECTION_MSG, cache |-> cache, requests |-> 1]
    ELSE LET answer == IF resp.status = 200 /\ resp.json = "choices"
                       THEN Msg("completion", 0, <<strip(resp.content)>>)
                       ELSE CASE resp.status = 401 -> AUTH_FAILED_MSG
                              [] resp.status = 402 -> NO_CREDITS_MSG
                              [] resp.status = 429 -> RATE_LIMIT_MSG
                              [] OTHER -> Msg("api_error", resp.status,
                                              <<Take(resp.text, ErrorTextLen)>>)
         IN  [ret |-> answer, cache |-> (cache_key(prompt) :> answer) @@ cache,
              requests |-> 1]

\* call_llm without the test of the key: the request goes out unauthenticated.
call_llm_no_key_check(key, cache, prompt, resp) ==
    IF cache_key(prompt) \in DOMAIN cache
    THEN [ret |-> cache[cache_key(prompt)], cache |-> cache, requests |-> 0]
    ELSE IF resp.kind = "exc" \/ (resp.status = 200 /\ resp.json = "invalid")
    THEN [ret |-> CONNECTION_MSG, cache |-> cache, requests |-> 1]
    ELSE IF resp.status = 200 /\ resp.json = "choices"
    THEN [ret |-> Msg("completion", 0, <<strip(resp.content)>>),
          cache |-> (cache_key(prompt) :> Msg("completion", 0, <<strip(resp.content)>>))
                    @@ cache,
          requests |-> 1]
    ELSE [ret |-> CASE resp.status = 401 -> AUTH_FAILED_MSG
                    [] resp.status = 402 -> NO_CREDITS_MSG
                    [] resp.status = 429 -> RATE_LIMIT_MSG
                    [] OTHER -> Msg("api_error", resp.status,
                                    <<Take(resp.text, ErrorTextLen)>>),
          cache |-> cache, requests |-> 1]

\* SmartAI.call_llm: key is whether OPENROUTER_API_KEY is set, resp the
\* outcome of requests.post if it is made. Returns the string, the cache
\* afterwards and the number of requests made.
call_llm(key, cache, prompt, resp) ==
    IF ~key THEN [ret |-> NO_KEY_MSG, cache |-> cache, requests |-> 0]
    ELSE IF cache_key(prompt) \in DOMAIN cache
    THEN [ret |-> cache[cache_key(prompt)], cache |-> cache, requests |-> 0]
    ELSE IF resp.kind = "exc"
    THEN [ret |-> CONNECTION_MSG, cache |-> cache, requests |-> 1]
    ELSE IF resp.status = 200 /\ resp.json = "invalid"
    THEN [ret |-> CONNECTION_MSG, cache |-> cache, requests |-> 1]
    ELSE IF resp.status = 200 /\ resp.json = "choices"
    THEN LET answer == Msg("completion", 0, <<strip(resp.content)>>)
         IN  [ret |-> answer,
              cache |-> (cache_key(prompt) :> answer) @@ cache,
              requests |-> 1]
    ELSE [ret |-> CASE resp.status = 401 -> AUTH_FAILED_MSG
                    [] resp.status = 402 -> NO_CREDITS_MSG
                    [] resp.status = 429 -> RATE_LIMIT_MSG
                    [] OTHER -> Msg("api_error", resp.status,
                                    <<Take(resp.text, ErrorTextLen)>>),
          cache |-> cache, requests |-> 1]

----------------------------------------------------------------------------
(* UniversalChatbot *)

\* UniversalChatbot.__init__
new_chatbot(company_name, website_url, chatbot_id) ==
    [company_name |-> company_name, website_url |-> website_url,
     chatbot_id |-> chatbot_id, pages |-> <<>>,
     contact_info |-> [emails |-> <<>>, phones |-> <<>>],
     ready |-> FALSE, cache |-> <<>>]

GREETINGS == { <<"h", "i">>, <<"h", "e", "l", "l", "o">>, <<"h", "e", "y">> }
CONTACT_WORDS == { <<"e", "m", "a", "i", "l">>,
                   <<"c", "o", "n", "t", "a", "c", "t">>,
                   <<"p", "h", "o", "n", "e">> }

ContextPages == 3
ContextChars == 800

RECURSIVE build_context(_)
build_context(pages) ==
    IF pages = <<>> THEN <<>>
    ELSE TruncateChars(Head(pages).content, ContextChars) \o build_context(Tail(pages))

\* The prompt carrying what the instance has been asked before, as its
\* cache remembers it.
build_prompt_with_memory(bot, question) ==
    [company |-> bot.company_name,
     context |-> build_context(Take(bot.pages, ContextPages)),
     question |-> question,
     memory |-> bot.cache]

\* The prompt template's three holes.
build_prompt(bot, question) ==
    [company |-> bot.company_name,
     context |-> build_context(Take(bot.pages, ContextPages)),
     question |-> question]

is_greeting(question) == \E g \in GREETINGS : contains(lower(question), g)
is_contact(question) == \E k \in CONTACT_WORDS : contains(lower(question), k)

\* ask with the contact test made before the greeting test.
ask_contact_first(bot, key, question, resp) ==
    IF ~bot.ready
    THEN [ret |-> NOT_READY_MSG, bot |-> bot, requests |-> 0, llm |-> FALSE]
    ELSE IF \E k \in CONTACT_WORDS : contains(lower(question), k)
    THEN [ret |-> Msg("contact", 0, <<bot.company_name, bot.website_url,
                                      bot.contact_info.emails,
                                      bot.contact_info.phones>>),
          bot |-> bot, requests |-> 0, llm |-> FALSE]
    ELSE IF \E g \in GREETINGS : contains(lower(question), g)
    THEN [ret |-> Msg("greeting", 0, <<bot.company_name>>),
          bot |-> bot, requests |-> 0, llm |-> FALSE]
    ELSE LET r == call_llm(key, bot.cache, build_prompt(bot, question), resp)
         IN  [ret |-> r.ret, bot |-> [bot EXCEPT !.cache = r.cache],
              requests |-> r.requests, llm |-> TRUE]

\* UniversalChatbot.ask: returns the reply, the bot afterwards (its cache),
\* the number of requests made and whether call_llm was called.
ask(bot, key, question, resp) ==
    IF ~bot.ready
    THEN [ret |-> NOT_READY_MSG, bot |-> bot, requests |-> 0, llm |-> FALSE]
    ELSE IF is_greeting(question)
    THEN [ret |-> Msg("greeting", 0, <<bot.company_name>>),
          bot |-> bot, requests |-> 0, llm |-> FALSE]
    ELSE IF is_contact(question)
    THEN [ret |-> Msg("contact", 0, <<bot.company_name, bot.website_url,
                                      bot.contact_info.emails,
                                      bot.contact_info.phones>>),
          bot |-> bot, requests |-> 0, llm |-> FALSE]
    ELSE LET r == call_llm(key, bot.cache, build_prompt(bot, question), resp)
         IN  [ret |-> r.ret, bot |-> [bot EXCEPT !.cache = r.cache],
              requests |-> r.requests, llm |-> TRUE]

\* The outcome of FastScraper.scrape_website as initialize sees it: it
\* raised, or it returned pages and contact_info.
ScrapeRaised == [raised |-> TRUE, pages |-> <<>>,
                 contact_info |-> [emails |-> <<>>, phones |-> <<>>]]
ScrapeReturned(pages, contact_info) ==
    [raised |-> FALSE, pages |-> pages, contact_info |-> contact_info]

\* Every outcome of scrape_website(base_url) for the given fetch outcomes:
\* one per order in which the loop consumes the futures and per listing of
\* the contact sets.
scrape_outcomes(base_url, resps) ==
    IF \E i \in 1..NumUrls : scrape_page(candidate_urls(base_url)[i], resps[i]) = Raised
    THEN {ScrapeRaised}
    ELSE
    UNION { { ScrapeReturned(collect_pages(candidate_urls(base_url), resps, order), c) :
                c \in contact_infos(collect_pages(candidate_urls(base_url), resps, order)) } :
            order \in {o \in [1..NumUrls -> 1..NumUrls] :
                          \A i, j \in 1..NumUrls : o[i] = o[j] => i = j} }

\* initialize setting ready before the scrape, so that a scrape that raises
\* leaves it set.
initialize_ready_first(bot, scrape) ==
    IF scrape.raised
    THEN [bot |-> [bot EXCEPT !.ready = TRUE], ok |-> FALSE]
    ELSE [bot |-> [bot EXCEPT !.pages = scrape.pages,
                              !.contact_info = scrape.contact_info,
                              !.ready = TRUE],
          ok |-> TRUE]

\* UniversalChatbot.initialize: the bot afterwards and the value returned.
initialize(bot, scrape) ==
    IF scrape.raised
    THEN [bot |-> bot, ok |-> FALSE]
    ELSE [bot |-> [bot EXCEPT !.pages = scrape.pages,
                              !.contact_info = scrape.contact_info,
                              !.ready = TRUE],
          ok |-> TRUE]

----------------------------------------------------------------------------
(* InMemoryStorage *)

json_dumps(conversation) == [json |-> conversation]

ANONYMOUS == <<"A", "n", "o", "n", "y", "m", "o", "u", "s">>
NO_EMAIL == <<"n", "o", "t", "_", "p", "r", "o", "v", "i", "d", "e", "d", "@",
              "e", "x", "a", "m", "p", "l", "e", ".", "c", "o", "m">>
NO_PHONE == <<"N", "o", "t", " ", "p", "r", "o", "v", "i", "d", "e", "d">>

\* `x or default` on a string.
or_default(x, default) == IF x # <<>> THEN x ELSE default

\* save_lead counting the id on before the record is built, so that a call
\* that raises uses an id up.
save_lead_counts_failures(store, chatbot_id, company_name, user_name, user_email, user_phone, session_id, questions_asked, conversation, raises) ==
    IF raises
    THEN [store |-> [leads |-> store.leads, next_lead_id |-> store.next_lead_id + 1],
          ok |-> FALSE]
    ELSE LET lead == [userid |-> store.next_lead_id,
                      username |-> or_default(user_name, ANONYMOUS),
                      mailid |-> or_default(user_email, NO_EMAIL),
                      phonenumber |-> or_default(user_phone, NO_PHONE),
                      conversation |-> IF conversation # <<>>
                                       THEN json_dumps(conversation)
                                       ELSE json_dumps(<<>>),
                      timeend |-> None,
                      chatbot_id |-> chatbot_id,
                      company_name |-> company_name,
                      session_id |-> session_id,
                      questions_asked |-> questions_asked]
         IN  [store |-> [leads |-> Append(store.leads, lead),
                         next_lead_id |-> store.next_lead_id + 1],
              ok |-> TRUE]

\* InMemoryStorage.save_lead: store is [leads, next_lead_id]; raises says
\* whether building the record raised inside the try block. Returns the
\* store afterwards and the boolean returned. (timestart, the wall clock at
\* the call, is left out of the record.)
save_lead(store, chatbot_id, company_name, user_name, user_email, user_phone, session_id, questions_asked, conversation, raises) ==
    IF raises THEN [store |-> store, ok |-> FALSE]
    ELSE LET lead == [userid |-> store.next_lead_id,
                      username |-> or_default(user_name, ANONYMOUS),
                      mailid |-> or_default(user_email, NO_EMAIL),
                      phonenumber |-> or_default(user_phone, NO_PHONE),
                      conversation |-> IF conversation # <<>>
                                       THEN json_dumps(conversation)
                                       ELSE json_dumps(<<>>),
                      timeend |-> None,
                      chatbot_id |-> chatbot_id,
                      company_name |-> company_name,
                      session_id |-> session_id,
                      questions_asked |-> questions_asked]
         IN  [store |-> [leads |-> Append(store.leads, lead),
                         next_lead_id |-> store.next_lead_id + 1],
              ok |-> TRUE]

\* generate_embed_code: the two values formatted into the fixed snippet.
generate_embed_code(chatbot_id, company_name) == <<chatbot_id, company_name>>

\* InMemoryStorage.save_chatbot on [chatbots, next_chatbot_id].
save_chatbot(registry, chatbot_id, company_name, website_url, embed_code) ==
    [chatbots |-> (chatbot_id :> [id |-> registry.next_chatbot_id,
                                  chatbot_id |-> chatbot_id,
                                  company_name |-> company_name,
                                  website_url |-> website_url,
                                  embed_code |-> embed_code])
                  @@ registry.chatbots,
     next_chatbot_id |-> registry.next_chatbot_id + 1]

----------------------------------------------------------------------------
(* Utility functions *)

\* The text after the last "@": email.split('@')[-1].
last_at(s) ==
    IF \E i \in 1..Len(s) : s[i] = "@"
    THEN LET i == CHOOSE k \in 1..Len(s) :
                    s[k] = "@" /\ \A m \in (k + 1)..Len(s) : s[m] # "@"
         IN  SubSeq(s, i + 1, Len(s))
    ELSE s

\* validate_email without the test of the text after the last "@".
validate_email_at_only(email) ==
    IF email = <<>> \/ strip(email) = <<>> THEN FALSE
    ELSE contains(email, <<"@">>)

validate_email(email) ==
    IF email = <<>> \/ strip(email) = <<>> THEN FALSE
    ELSE contains(email, <<"@">>) /\ contains(last_at(email), <<".">>)

IsAlnumLower(c) ==
    \/ \E i \in 1..Len(Lower) : Lower[i] = c
    \/ c \in {"0", "1", "2", "3", "4", "5", "6", "7", "8", "9"}

\* re.sub(r'[^a-z0-9]+', '-', s): each run of other characters becomes one "-".
RECURSIVE sub_dashes(_, _)
sub_dashes(s, in_run) ==
    IF s = <<>> THEN <<>>
    ELSE IF IsAlnumLower(Head(s)) THEN <<Head(s)>> \o sub_dashes(Tail(s), FALSE)
    ELSE (IF in_run THEN <<>> ELSE <<"-">>) \o sub_dashes(Tail(s), TRUE)

slug_of(name) == sub_dashes(lower(name), FALSE)

----------------------------------------------------------------------------
(* Inputs *)

HttpResp(status, lines) == [kind |-> "resp", status |-> status, lines |-> lines]
HttpExc == [kind |-> "exc"]

About == Line("about us", 40, <<>>, <<>>)
Short == Line("menu", 4, <<>>, <<>>)
Edge == Line("exactly 25 characters", 25, <<>>, <<>>)
Mail == Line("write to us", 30, <<"info@x.io">>, <<"+1 555 0100">>)

\* Fetch outcomes of the five candidate urls of a site.
SiteDown == <<HttpExc, HttpResp(404, <<About>>), HttpExc, HttpResp(500, <<>>), HttpExc>>
SiteUp == <<HttpResp(200, <<Short, About>>), HttpResp(200, <<Short, Edge>>),
            HttpExc, HttpResp(200, <<Mail>>), HttpResp(404, <<About>>)>>

SiteAllUp == <<HttpResp(200, <<About>>), HttpResp(200, <<Mail>>),
               HttpResp(200, <<About, Short>>), HttpResp(200, <<Mail, About>>),
               HttpResp(200, <<About>>)>>

LlmResp(status, json, content, text) ==
    [kind |-> "resp", status |-> status, json |-> json, content |-> content,
     text |-> text]
LlmOk == LlmResp(200, "choices", <<" ", "o", "k", " ">>, <<>>)
LlmExc == [kind |-> "exc"]

LlmStatus(status) == LlmResp(status, "none", <<>>, <<"e", "r", "r">>)

SiteOne == <<HttpResp(200, <<Mail>>), HttpExc, HttpExc, HttpResp(404, <<>>), HttpExc>>

Hi == <<"H", "i">>
Cost == <<"c", "o", "s", "t">>
Jo == <<" ", "J", "o">>
Xio == <<"x", ".", "i", "o">>

\* What the session's user types and what the network answers. A run of the
\* session follows one scenario, which says which of the inputs vary in it:
\* the lead form's values, the chat's questions, the LLM API's answers, or the
\* chatbots created.
Scenarios == {"form", "chat", "network", "registry"}

Inputs(s) ==
    [companies |-> IF s = "registry"
                   THEN { <<>>, <<"A", "b">>, <<"C", " ", "!">> }
                   ELSE { <<"A", "b">> },
     urls |-> IF s = "registry" THEN { <<>>, Xio } ELSE { Xio },
     sites |-> IF s = "registry" THEN { SiteDown, SiteUp } ELSE { SiteOne },
     questions |-> CASE s = "chat" -> { Hi, Cost }
                     [] s = "network" -> { Cost }
                     [] OTHER -> { Hi },
     responses |-> IF s = "network" THEN { LlmOk, LlmExc } ELSE { LlmOk },
     names |-> IF s = "form" THEN { <<>>, <<" ">>, Jo } ELSE {},
     emails |-> IF s = "form"
                THEN { <<" ">>, <<"a", "@", "b">>, <<"a", ".", "b", "@", "c">>,
                       <<"a", "@", "b", ".", "c", " ">> }
                ELSE {},
     phones |-> IF s = "form" THEN { <<>>, <<" ">>, <<"5", "5", " ">> } ELSE {},
     raises |-> IF s = "form" THEN BOOLEAN ELSE {FALSE}]

----------------------------------------------------------------------------
(* State *)

VARIABLES
    \* st.session_state
    chatbots, current_company, chat_history, question_count,
    lead_capture_mode, lead_data, lead_captured,
    \* the module-level InMemoryStorage
    storage,
    \* whether OPENROUTER_API_KEY is set
    OPENROUTER_API_KEY,
    \* what the last handler did: its name, whether it called ask, the
    \* network requests it made, the outcome of its save_lead call
    op,
    \* the current run of the lead form, since the chatbot became current:
    \* Submit/Skip clicks, those of them that moved the form on, and the
    \* number of leads the store held when the run began
    flow,
    \* the scenario of this run
    scenario,
    \* a UniversalChatbot exercised on its own: the instance, what its
    \* initialize returned, and one record per ask made of it
    ai_bot, init_ret, calls,
    \* one scrape_website call, thread by thread: where it is, its arguments,
    \* the outcome each fetch will have, the fetches that have finished, the
    \* futures the loop has taken, pages, the callback's calls, the result
    sc_pc, sc_base, sc_cb, sc_resps, sc_done, sc_order, sc_pages, sc_calls,
    sc_result,
    \* the fetches in the order they finished, and how many of them had
    \* finished when as_completed was entered (-1 before that)
    sc_fin, sc_snap

sessionVars == <<chatbots, current_company, chat_history, question_count,
                 lead_capture_mode, lead_data, lead_captured, storage, op, flow>>
botVars == <<ai_bot, init_ret, calls>>
scrapeVars == <<sc_pc, sc_base, sc_cb, sc_resps, sc_done, sc_order, sc_pages,
                sc_calls, sc_result, sc_fin, sc_snap>>
vars == <<sessionVars, OPENROUTER_API_KEY, scenario, botVars, scrapeVars>>

\* What no handler of the session changes.
fixed == <<OPENROUTER_API_KEY, scenario, botVars, scrapeVars>>

\* No current chatbot (None; no slug is the empty string).
NoCompany == <<>>

SESSION_ID == "session-1"

Op(name, asked, requests, save) ==
    [name |-> name, asked |-> asked, requests |-> requests, save |-> save]

NewFlow(leads) == [clicks |-> 0, accepted |-> 0, base |-> Len(leads)]

\* No chatbot is exercised on its own.
BotIdle ==
    /\ ai_bot = new_chatbot(<<>>, <<>>, 0)
    /\ init_ret = None
    /\ calls = <<>>

\* No scrape is running.
ScrapeIdle ==
    /\ sc_pc = "idle"
    /\ sc_base = <<>>
    /\ sc_cb = FALSE
    /\ sc_resps = <<>>
    /\ sc_done = {}
    /\ sc_order = <<>>
    /\ sc_pages = <<>>
    /\ sc_calls = <<>>
    /\ sc_result = <<>>
    /\ sc_fin = <<>>
    /\ sc_snap = -1

\* init_session, and the module-level storage = InMemoryStorage().
InitSession ==
    /\ chatbots = <<>>
    /\ current_company = NoCompany
    /\ chat_history = <<>>
    /\ question_count = 0
    /\ lead_capture_mode = None
    /\ lead_data = <<>>
    /\ lead_captured = FALSE
    /\ storage = [leads |-> <<>>, next_lead_id |-> 1,
                  chatbots |-> <<>>, next_chatbot_id |-> 1]
    /\ op = Op("start", FALSE, 0, "none")
    /\ flow = NewFlow(<<>>)

\* main() stops before any widget when the key is not set.
Rendered == OPENROUTER_API_KEY

\* The form and the chat input are drawn only with a current chatbot.
ChatView == Rendered /\ current_company # NoCompany

InForm == lead_capture_mode # None /\ ~lead_captured

\* dict[key] = value
Put(d, k, v) == (k :> v) @@ d
\* dict.get(key, default)
Get(d, k, default) == IF k \in DOMAIN d THEN d[k] ELSE default
\* del dict[key]
Del(d, k) == [x \in (DOMAIN d) \ {k} |-> d[x]]

----------------------------------------------------------------------------
(* The handlers of main(): one click or one chat submission per script run *)

\* ResetSession without the line that clears lead_capture_mode.
ResetSessionKeepsMode(slug) ==
    /\ current_company' = slug
    /\ chat_history' = <<>>
    /\ question_count' = 0
    /\ lead_captured' = FALSE
    /\ UNCHANGED lead_capture_mode
    /\ lead_data' = <<>>

\* ResetSession without the line that clears lead_captured.
ResetSessionKeepsCaptured(slug) ==
    /\ current_company' = slug
    /\ chat_history' = <<>>
    /\ question_count' = 0
    /\ UNCHANGED lead_captured
    /\ lead_capture_mode' = None
    /\ lead_data' = <<>>

\* ResetSession without the line that clears question_count.
ResetSessionKeepsCount(slug) ==
    /\ current_company' = slug
    /\ chat_history' = <<>>
    /\ UNCHANGED question_count
    /\ lead_captured' = FALSE
    /\ lead_capture_mode' = None
    /\ lead_data' = <<>>

\* The assignments both Create and Select make when a chatbot becomes current.
ResetSession(slug) ==
    /\ current_company' = slug
    /\ chat_history' = <<>>
    /\ question_count' = 0
    /\ lead_captured' = FALSE
    /\ lead_capture_mode' = None
    /\ lead_data' = <<>>

\* "Create": chatbot_id stands for the hash of name, url and the clock, a
\* token no earlier chatbot has; scrape is the outcome of the scrape that
\* initialize runs.
ClickCreate(name, url, scrape) ==
    /\ Rendered
    /\ storage.next_chatbot_id <= MaxCreates
    /\ LET chatbot_id == storage.next_chatbot_id
           slug == slug_of(name)
           r == initialize(new_chatbot(name, url, chatbot_id), scrape)
       IN  IF name # <<>> /\ url # <<>> /\ r.ok
           THEN /\ chatbots' = Put(chatbots, slug, r.bot)
                /\ ResetSession(slug)
                /\ storage' = [storage EXCEPT
                       !.chatbots = save_chatbot(
                           [chatbots |-> storage.chatbots,
                            next_chatbot_id |-> storage.next_chatbot_id],
                           chatbot_id, name, url,
                           generate_embed_code(chatbot_id, name)).chatbots,
                       !.next_chatbot_id = @ + 1]
                /\ flow' = NewFlow(storage.leads)
           ELSE UNCHANGED <<chatbots, current_company, chat_history,
                            question_count, lead_captured, lead_capture_mode,
                            lead_data, storage, flow>>
    /\ op' = Op("create", FALSE, 0, "none")
    /\ UNCHANGED fixed

\* The chatbot's button in the sidebar list.
ClickSelect(slug) ==
    /\ Rendered
    /\ slug \in DOMAIN chatbots
    /\ ResetSession(slug)
    /\ flow' = NewFlow(storage.leads)
    /\ op' = Op("select", FALSE, 0, "none")
    /\ UNCHANGED <<chatbots, storage, fixed>>

\* The delete button without the line that clears current_company.
ClickDeleteKeepsCurrent(slug) ==
    /\ Rendered
    /\ slug \in DOMAIN chatbots
    /\ chatbots' = Del(chatbots, slug)
    /\ UNCHANGED current_company
    /\ op' = Op("delete", FALSE, 0, "none")
    /\ UNCHANGED <<chat_history, question_count, lead_captured,
                   lead_capture_mode, lead_data, storage, flow,
                   fixed>>

\* The chatbot's delete button.
ClickDelete(slug) ==
    /\ Rendered
    /\ slug \in DOMAIN chatbots
    /\ chatbots' = Del(chatbots, slug)
    /\ current_company' = IF current_company = slug THEN NoCompany
                          ELSE current_company
    /\ op' = Op("delete", FALSE, 0, "none")
    /\ UNCHANGED <<chat_history, question_count, lead_captured,
                   lead_capture_mode, lead_data, storage, flow,
                   fixed>>

\* "View Leads": lists storage.get_leads() and returns.
ClickViewLeads ==
    /\ Rendered
    /\ op' = Op("view_leads", FALSE, 0, "none")
    /\ UNCHANGED <<chatbots, current_company, chat_history, question_count,
                   lead_captured, lead_capture_mode, lead_data, storage, flow,
                   fixed>>

FormShown(mode) ==
    /\ ChatView
    /\ InForm
    /\ lead_capture_mode = mode
    /\ flow.clicks < MaxClicks

Clicked(accepted) ==
    flow' = [flow EXCEPT !.clicks = @ + 1,
                         !.accepted = @ + (IF accepted THEN 1 ELSE 0)]

FormFrame == UNCHANGED <<chatbots, current_company, chat_history,
                         question_count, lead_captured, storage,
                         fixed>>

\* ask_name, Submit
SubmitName(name) ==
    /\ FormShown("ask_name")
    /\ IF name # <<>> /\ strip(name) # <<>>
       THEN /\ lead_data' = Put(lead_data, "name", strip(name))
            /\ lead_capture_mode' = "ask_email"
            /\ Clicked(TRUE)
       ELSE /\ UNCHANGED <<lead_data, lead_capture_mode>>
            /\ Clicked(FALSE)
    /\ op' = Op("submit_name", FALSE, 0, "none")
    /\ FormFrame

\* Skip of the name step going straight to the phone step.
SkipNameSkipsEmail ==
    /\ FormShown("ask_name")
    /\ lead_data' = Put(lead_data, "name", ANONYMOUS)
    /\ lead_capture_mode' = "ask_phone"
    /\ Clicked(TRUE)
    /\ op' = Op("skip_name", FALSE, 0, "none")
    /\ FormFrame

\* ask_name, Skip
SkipName ==
    /\ FormShown("ask_name")
    /\ lead_data' = Put(lead_data, "name", ANONYMOUS)
    /\ lead_capture_mode' = "ask_email"
    /\ Clicked(TRUE)
    /\ op' = Op("skip_name", FALSE, 0, "none")
    /\ FormFrame

\* ask_email, Submit
SubmitEmail(email) ==
    /\ FormShown("ask_email")
    /\ IF email # <<>> /\ validate_email(email)
       THEN /\ lead_data' = Put(lead_data, "email", strip(email))
            /\ lead_capture_mode' = "ask_phone"
            /\ Clicked(TRUE)
       ELSE /\ UNCHANGED <<lead_data, lead_capture_mode>>
            /\ Clicked(FALSE)
    /\ op' = Op("submit_email", FALSE, 0, "none")
    /\ FormFrame

\* Skip of the e-mail step going back to the name step.
SkipEmailBackToName ==
    /\ FormShown("ask_email")
    /\ lead_data' = Put(lead_data, "email", NO_EMAIL)
    /\ lead_capture_mode' = "ask_name"
    /\ Clicked(TRUE)
    /\ op' = Op("skip_email", FALSE, 0, "none")
    /\ FormFrame

\* ask_email, Skip
SkipEmail ==
    /\ FormShown("ask_email")
    /\ lead_data' = Put(lead_data, "email", NO_EMAIL)
    /\ lead_capture_mode' = "ask_phone"
    /\ Clicked(TRUE)
    /\ op' = Op("skip_email", FALSE, 0, "none")
    /\ FormFrame

\* The save_lead call made with an empty conversation.
SaveCurrentLeadWithoutHistory(data, phone, raises) ==
    LET bot == chatbots[current_company]
    IN  save_lead([leads |-> storage.leads, next_lead_id |-> storage.next_lead_id],
                  bot.chatbot_id, bot.company_name,
                  Get(data, "name", ANONYMOUS), Get(data, "email", NO_EMAIL),
                  phone, SESSION_ID, question_count, <<>>, raises)

\* The save_lead call of both ask_phone buttons, on the lead data given.
SaveCurrentLead(data, phone, raises) ==
    LET bot == chatbots[current_company]
    IN  save_lead([leads |-> storage.leads, next_lead_id |-> storage.next_lead_id],
                  bot.chatbot_id, bot.company_name,
                  Get(data, "name", ANONYMOUS), Get(data, "email", NO_EMAIL),
                  phone, SESSION_ID, question_count, chat_history, raises)

\* The ask_phone buttons marking the lead captured whatever save_lead returned.
AfterSaveIgnoresResult(r, name) ==
    /\ storage' = [storage EXCEPT !.leads = r.store.leads,
                                  !.next_lead_id = r.store.next_lead_id]
    /\ lead_captured' = TRUE
    /\ lead_capture_mode' = None
    /\ Clicked(TRUE)
    /\ op' = Op(name, FALSE, 0, IF r.ok THEN "ok" ELSE "failed")
    /\ UNCHANGED <<chatbots, current_company, chat_history, question_count,
                   fixed>>

\* What both ask_phone buttons do with the value save_lead returned.
AfterSave(r, name) ==
    /\ storage' = [storage EXCEPT !.leads = r.store.leads,
                                  !.next_lead_id = r.store.next_lead_id]
    /\ IF r.ok
       THEN /\ lead_captured' = TRUE
            /\ lead_capture_mode' = None
            /\ Clicked(TRUE)
       ELSE /\ UNCHANGED <<lead_captured, lead_capture_mode>>
            /\ Clicked(FALSE)
    /\ op' = Op(name, FALSE, 0, IF r.ok THEN "ok" ELSE "failed")
    /\ UNCHANGED <<chatbots, current_company, chat_history, question_count,
                   fixed>>

\* ask_phone, Submit
SubmitPhone(phone, raises) ==
    /\ FormShown("ask_phone")
    /\ Len(storage.leads) < MaxLeads
    /\ LET phone_value == IF phone # <<>> THEN strip(phone) ELSE NO_PHONE
           data == Put(lead_data, "phone", phone_value)
       IN  /\ lead_data' = data
           /\ AfterSave(SaveCurrentLead(data, Get(data, "phone", NO_PHONE), raises),
                        "submit_phone")

\* ask_phone, Skip
SkipPhone(raises) ==
    /\ FormShown("ask_phone")
    /\ Len(storage.leads) < MaxLeads
    /\ UNCHANGED lead_data
    /\ AfterSave(SaveCurrentLead(lead_data, NO_PHONE, raises), "skip_phone")

\* The trigger comparing with > where the code compares with >=.
LeadThresholdOffByOne == 3 + 1

LeadThreshold == 3

\* The chat input refused at the form's first question only.
ChatBlockedAtNameOnly == lead_capture_mode = "ask_name" /\ ~lead_captured

\* The handler relying on the disabled widget alone.
ChatNeverBlocked == FALSE

\* The check the chat input's handler makes before it answers.
ChatBlocked == lead_capture_mode # None /\ ~lead_captured

\* The chat input: question is the text submitted, resp what the LLM API
\* answers if it is asked.
ChatInput(question, resp) ==
    /\ ChatView
    /\ question # <<>>
    /\ question_count < MaxQuestions
    /\ IF ChatBlocked
       THEN /\ op' = Op("chat_input", FALSE, 0, "none")
            /\ UNCHANGED <<chatbots, chat_history, question_count,
                           lead_capture_mode>>
       ELSE \E a \in {ask(chatbots[current_company], OPENROUTER_API_KEY,
                          question, resp)} :
            LET count == question_count + 1
            IN  /\ chat_history' = chat_history
                       \o << [role |-> "user", content |-> Msg("question", 0, <<question>>)],
                             [role |-> "assistant", content |-> a.ret] >>
                /\ chatbots' = [chatbots EXCEPT ![current_company] = a.bot]
                /\ question_count' = count
                /\ lead_capture_mode' =
                       IF count >= LeadThreshold /\ ~lead_captured
                          /\ lead_capture_mode = None
                       THEN "ask_name" ELSE lead_capture_mode
                /\ op' = Op("chat_input", TRUE, a.requests, "none")
    /\ UNCHANGED <<current_company, lead_data, lead_captured, storage, flow,
                   fixed>>

\* The scrapes a Create may run: <<url, fetch outcomes, outcome of the scrape>>,
\* the outcome being one of scrape_outcomes or, the progress callback having
\* raised, an exception.
Scrapes ==
    UNION { { <<url, site, o>> : o \in scrape_outcomes(url, site) \cup {ScrapeRaised} } :
            <<url, site>> \in (UNION {Inputs(s).urls : s \in Scenarios})
                              \X (UNION {Inputs(s).sites : s \in Scenarios}) }

Next ==
    \/ \E name \in Inputs(scenario).companies, t \in Scrapes :
         /\ t[1] \in Inputs(scenario).urls
         /\ t[2] \in Inputs(scenario).sites
         /\ ClickCreate(name, t[1], t[3])
    \/ \E slug \in DOMAIN chatbots : ClickSelect(slug)
    \/ \E slug \in DOMAIN chatbots : ClickDelete(slug)
    \/ ClickViewLeads
    \/ \E name \in Inputs(scenario).names : SubmitName(name)
    \/ SkipName
    \/ \E email \in Inputs(scenario).emails : SubmitEmail(email)
    \/ SkipEmail
    \/ \E phone \in Inputs(scenario).phones, raises \in Inputs(scenario).raises :
         SubmitPhone(phone, raises)
    \/ \E raises \in Inputs(scenario).raises : SkipPhone(raises)
    \/ \E question \in Inputs(scenario).questions,
          resp \in Inputs(scenario).responses : ChatInput(question, resp)

Init ==
    /\ InitSession
    /\ OPENROUTER_API_KEY \in BOOLEAN
    /\ scenario \in Scenarios
    /\ BotIdle
    /\ ScrapeIdle

Spec == Init /\ [][Next]_vars

----------------------------------------------------------------------------
(* A chatbot exercised on its own: construct, initialize, ask *)

LlmOther == LlmResp(200, "choices", <<"n", "o">>, <<>>)
LlmNoChoices == LlmResp(200, "nochoices", <<>>, <<"{", "}">>)
LlmNotJson == LlmResp(200, "invalid", <<>>, <<"<", ">">>)

BotResponses == { LlmOk, LlmOther, LlmExc, LlmStatus(401), LlmStatus(402),
                  LlmStatus(429), LlmStatus(500), LlmNoChoices, LlmNotJson }

Hey == <<"H", "e", "y">>
HiEmail == <<"h", "i", " ", "e", "m", "a", "i", "l">>
Phone == <<"P", "h", "o", "n", "e", "?">>
Ship == <<"s", "h", "i", "p">>
COST == <<"C", "O", "S", "T">>
Cots == <<"c", "o", "t", "s">>

BotQuestions == { Hey, HiEmail, Phone, Ship, Cost, COST, Cots }
BotSites == { SiteDown, SiteUp }

InitBot ==
    /\ InitSession
    /\ scenario = "chat"
    /\ ScrapeIdle
    /\ OPENROUTER_API_KEY \in BOOLEAN
    /\ ai_bot = new_chatbot(<<"A", "b">>, Xio, 1)
    /\ init_ret = None
    /\ calls = <<>>

botFrame == UNCHANGED <<sessionVars, OPENROUTER_API_KEY, scenario, scrapeVars>>

\* bot.initialize(cb): the scrape raised (the callback did), or returned.
BotInitialize(scrape) ==
    /\ init_ret = None
    /\ LET r == initialize(ai_bot, scrape)
       IN  /\ ai_bot' = r.bot
           /\ init_ret' = IF r.ok THEN "True" ELSE "False"
    /\ UNCHANGED calls
    /\ botFrame

\* bot.ask(question), with resp what the LLM API answers if it is asked.
BotAsk(question, resp) ==
    /\ Len(calls) < MaxCalls
    /\ \E r \in {ask(ai_bot, OPENROUTER_API_KEY, question, resp)} :
           /\ ai_bot' = r.bot
           /\ calls' = Append(calls,
                  [question |-> question, ready |-> ai_bot.ready,
                   llm |-> r.llm, prompt |-> build_prompt(ai_bot, question),
                   ret |-> r.ret, requests |-> r.requests,
                   cache_before |-> ai_bot.cache, cache_after |-> r.bot.cache])
    /\ UNCHANGED init_ret
    /\ botFrame

\* A scrape of a site whose five pages all have text, the futures taken in
\* the order 2, 1, 3, 4, 5.
FivePageScrapes ==
    LET pages == collect_pages(candidate_urls(Xio), SiteAllUp, <<2, 1, 3, 4, 5>>)
    IN  {ScrapeReturned(pages, c) : c \in contact_infos(pages)}

NextBot ==
    \/ \E t \in Scrapes :
         /\ t[1] = ai_bot.website_url
         /\ t[2] \in BotSites
         /\ BotInitialize(t[3])
    \/ \E scrape \in FivePageScrapes : BotInitialize(scrape)
    \/ BotInitialize(ScrapeRaised)
    \/ \E question \in BotQuestions, resp \in BotResponses : BotAsk(question, resp)

SpecBot == InitBot /\ [][NextBot]_vars

----------------------------------------------------------------------------
(* One call of scrape_website, thread by thread *)

SiteEmpty == <<HttpResp(200, <<>>), HttpResp(200, <<Short>>), HttpResp(200, <<Edge>>),
               HttpResp(301, <<About>>), HttpExc>>

HttpsXio == <<"h", "t", "t", "p", "s", ":", "/", "/">> \o Xio

ScrapeBases == {Xio, HttpsXio}
\* A line with four matches of the e-mail pattern, one of them twice, and
\* three of the phone pattern, two of them the same.
Many == Line("all our offices", 60, <<"a@x.io", "b@x.io", "a@x.io", "info@x.io", "c@x.io">>,
             <<"+1 555 0100", "+1 555 0101", "+1 555 0101">>)
SiteContacts == <<HttpResp(200, <<Many>>), HttpResp(200, <<Mail, Short>>), HttpExc,
                  HttpResp(200, <<Short>>), HttpResp(404, <<Many>>)>>

ScrapeSites == {SiteDown, SiteUp, SiteOne, SiteAllUp, SiteEmpty, SiteContacts}

InitScrape ==
    /\ InitSession
    /\ BotIdle
    /\ ScrapeIdle
    /\ scenario = "network"
    /\ OPENROUTER_API_KEY = TRUE

scrapeFrame == UNCHANGED <<sessionVars, OPENROUTER_API_KEY, scenario, botVars>>

\* The futures the loop has taken from as_completed so far.
Consumed == {sc_order[k] : k \in 1..Len(sc_order)}

\* The futures that were finished when as_completed was entered.
FinishedAtEntry == {sc_fin[k] : k \in 1..sc_snap}

\* as_completed yielding any finished future, whatever the order in which
\* the futures finished.
YieldableAnyFinished(i) == sc_snap >= 0 /\ i \in sc_done /\ i \notin Consumed

\* as_completed yielding a future whether it is finished or not.
YieldableUnfinished(i) == i \notin Consumed

\* as_completed yields each future once: first those that were finished when
\* it was entered, in the order of a set, then the others in the order they
\* finish.
Yieldable(i) ==
    /\ sc_snap >= 0
    /\ i \notin Consumed
    /\ IF Len(sc_order) < sc_snap
       THEN i \in FinishedAtEntry
       ELSE Len(sc_fin) > Len(sc_order) /\ i = sc_fin[Len(sc_order) + 1]

\* scrape_website is called: the scheme is prepended, the five urls are
\* built and the five fetches are submitted to the pool of five workers.
ScrapeStart(base_url, resps, with_callback) ==
    /\ sc_pc = "idle"
    /\ sc_pc' = "loop"
    /\ sc_base' = base_url
    /\ sc_resps' = resps
    /\ sc_cb' = with_callback
    /\ UNCHANGED <<sc_done, sc_order, sc_pages, sc_calls, sc_result, sc_fin,
                   sc_snap>>
    /\ scrapeFrame

\* A worker's scrape_page(urls[i]) finishes.
FetchDone(i) ==
    /\ sc_pc = "loop"
    /\ i \notin sc_done
    /\ sc_snap = -1 => Len(sc_fin) < MaxEarly
    /\ sc_done' = sc_done \cup {i}
    /\ sc_fin' = Append(sc_fin, i)
    /\ UNCHANGED <<sc_pc, sc_base, sc_cb, sc_resps, sc_order, sc_pages, sc_calls,
                   sc_result, sc_snap>>
    /\ scrapeFrame

\* The for statement enters as_completed, which notes the futures that are
\* finished by then and waits for the others.
LoopEnter ==
    /\ sc_pc = "loop"
    /\ sc_snap = -1
    /\ sc_snap' = Len(sc_fin)
    /\ UNCHANGED <<sc_pc, sc_base, sc_cb, sc_resps, sc_done, sc_order, sc_pages,
                   sc_calls, sc_result, sc_fin>>
    /\ scrapeFrame

\* One turn of the loop over as_completed(futures): the callback, then
\* future.result(), which raises what the worker raised, then the append.
LoopNext(i) ==
    /\ sc_pc = "loop"
    /\ Yieldable(i)
    /\ LET urls == candidate_urls(sc_base)
           result == scrape_page(urls[i], sc_resps[i])
       IN  /\ sc_calls' = IF sc_cb
                          THEN Append(sc_calls, <<Len(sc_order) + 1, Len(urls), urls[i]>>)
                          ELSE sc_calls
           /\ sc_order' = Append(sc_order, i)
           /\ IF result = Raised
              THEN sc_pc' = "raised" /\ UNCHANGED sc_pages
              ELSE /\ UNCHANGED sc_pc
                   /\ sc_pages' = IF result # NoPage THEN Append(sc_pages, result)
                                  ELSE sc_pages
    /\ UNCHANGED <<sc_base, sc_cb, sc_resps, sc_done, sc_result, sc_fin, sc_snap>>
    /\ scrapeFrame

\* The loop and the with block are over: the contact lists are cut from the
\* joined text and scrape_website returns.
ScrapeReturn ==
    /\ sc_pc = "loop"
    /\ Len(sc_order) = NumUrls
    /\ sc_done = 1..NumUrls
    /\ sc_pc' = "returned"
    /\ \E c \in contact_infos(sc_pages) :
           sc_result' = [pages |-> sc_pages, contact_info |-> c]
    /\ UNCHANGED <<sc_base, sc_cb, sc_resps, sc_done, sc_order, sc_pages, sc_calls,
                   sc_fin, sc_snap>>
    /\ scrapeFrame

NextScrape ==
    \/ \E b \in ScrapeBases, r \in ScrapeSites, cb \in BOOLEAN : ScrapeStart(b, r, cb)
    \/ \E i \in 1..NumUrls : FetchDone(i)
    \/ LoopEnter
    \/ \E i \in 1..NumUrls : LoopNext(i)
    \/ ScrapeReturn

SpecScrape == InitScrape /\ [][NextScrape]_vars

----------------------------------------------------------------------------
(* The storage exercised on its own *)

MaxSaves == 3
MaxTurns == 2

\* get_leads called without a chatbot_id.
AllChatbots == 0

\* InMemoryStorage.get_leads
get_leads(store, chatbot_id) ==
    IF chatbot_id # AllChatbots
    THEN SelectSeq(store.leads, LAMBDA lead : lead.chatbot_id = chatbot_id)
    ELSE store.leads

InitStore ==
    /\ InitSession
    /\ BotIdle
    /\ ScrapeIdle
    /\ scenario = "form"
    /\ OPENROUTER_API_KEY = TRUE

storeFrame == UNCHANGED <<chatbots, current_company, lead_capture_mode, lead_data,
                          lead_captured, flow, fixed>>

\* storage.save_lead called with the session's count and chat history.
StoreSaveLead(chatbot_id, user_name, raises) ==
    /\ Len(storage.leads) < MaxSaves
    /\ storage.next_lead_id <= MaxSaves + 1
    /\ \E r \in {save_lead([leads |-> storage.leads,
                            next_lead_id |-> storage.next_lead_id],
                           chatbot_id, <<"A", "b">>, user_name, <<>>, <<>>,
                           SESSION_ID, question_count, chat_history, raises)} :
           /\ storage' = [storage EXCEPT !.leads = r.store.leads,
                                         !.next_lead_id = r.store.next_lead_id]
           /\ op' = Op("save_lead", FALSE, 0, IF r.ok THEN "ok" ELSE "failed")
    /\ UNCHANGED <<chat_history, question_count>>
    /\ storeFrame

\* A question and its answer appended to the chat history the last save
\* was given.
StoreChatTurn ==
    /\ question_count < MaxTurns
    /\ chat_history' = chat_history
           \o << [role |-> "user", content |-> Msg("question", 0, <<Hi>>)],
                 [role |-> "assistant", content |-> Msg("greeting", 0, << <<"A", "b">> >>)] >>
    /\ question_count' = question_count + 1
    /\ op' = Op("chat_input", TRUE, 0, "none")
    /\ UNCHANGED storage
    /\ storeFrame

\* The chat history and the count cleared as Create and Select clear them.
StoreResetChat ==
    /\ chat_history # <<>>
    /\ chat_history' = <<>>
    /\ question_count' = 0
    /\ op' = Op("select", FALSE, 0, "none")
    /\ UNCHANGED storage
    /\ storeFrame

NextStore ==
    \/ \E chatbot_id \in {1, 2}, user_name \in {<<>>, Jo}, raises \in BOOLEAN :
           StoreSaveLead(chatbot_id, user_name, raises)
    \/ StoreChatTurn
    \/ StoreResetChat

SpecStore == InitStore /\ [][NextStore]_vars

----------------------------------------------------------------------------
(* The LLM client and the routing of questions *)

\* The asks that reached call_llm.
LlmCalls == {i \in 1..Len(calls) : calls[i].llm}

StatusKinds == {"auth_failed", "insufficient_credits", "rate_limit", "api_error"}

Cached(c) ==
    /\ cache_key(c.prompt) \in DOMAIN c.cache_after
    /\ c.cache_after[cache_key(c.prompt)] = c.ret

C6_NoKeyNoCall ==
    \A i \in LlmCalls :
        ~OPENROUTER_API_KEY =>
            /\ calls[i].ret = NO_KEY_MSG
            /\ calls[i].requests = 0
            /\ calls[i].cache_after = calls[i].cache_before

\* Two calls made without a key.
C6_Witness ==
    /\ ~OPENROUTER_API_KEY
    /\ Len(calls) = 2
    /\ calls[1].llm /\ calls[2].llm
    /\ calls[2].ret = NO_KEY_MSG

C9_HasAny(question, words) == \E w \in words : contains(lower(question), w)

C9_Greetings == { <<"h", "i">>, <<"h", "e", "l", "l", "o">>, <<"h", "e", "y">> }
C9_Contacts == { <<"e", "m", "a", "i", "l">>, <<"c", "o", "n", "t", "a", "c", "t">>,
                 <<"p", "h", "o", "n", "e">> }

\* C9: a ready chatbot answers a question that contains a greeting keyword
\* with the greeting naming the company, else one that contains a contact
\* keyword with the contact block, else calls the LLM client; the first two
\* make no LLM call and no request and leave the cache as it was.
C9_Routing ==
    \A i \in 1..Len(calls) :
        calls[i].ready =>
            IF C9_HasAny(calls[i].question, C9_Greetings)
            THEN /\ calls[i].ret = Msg("greeting", 0, <<ai_bot.company_name>>)
                 /\ ~calls[i].llm
                 /\ calls[i].requests = 0
                 /\ calls[i].cache_after = calls[i].cache_before
            ELSE IF C9_HasAny(calls[i].question, C9_Contacts)
            THEN /\ calls[i].ret.kind = "contact"
                 /\ calls[i].ret.args[1] = ai_bot.company_name
                 /\ ~calls[i].llm
                 /\ calls[i].requests = 0
                 /\ calls[i].cache_after = calls[i].cache_before
            ELSE calls[i].llm

\* "hi email" greeted, then "Phone?" answered with a contact block that
\* lists an address.
C9_Witness ==
    /\ Len(calls) = 2
    /\ calls[1].ready
    /\ calls[1].question = HiEmail
    /\ calls[1].ret.kind = "greeting"
    /\ calls[2].question = Phone
    /\ calls[2].ret.kind = "contact"
    /\ calls[2].ret.args[3] # <<>>

----------------------------------------------------------------------------
(* The lead-capture machine *)

\* The step of the form the session is at: 0, 1, 2 in the three questions,
\* 3 once the lead is captured.
Stage ==
    CASE lead_captured -> 3
      [] lead_capture_mode = "ask_name" -> 0
      [] lead_capture_mode = "ask_email" -> 1
      [] lead_capture_mode = "ask_phone" -> 2
      [] OTHER -> 0

FlowBegun == lead_captured \/ lead_capture_mode # None

LeadsThisFlow == Len(storage.leads) - flow.base

\* C1, as stated: from AskName the machine is Captured after exactly 3
\* Submit/Skip actions whatever the mix, so after k such actions it stands k
\* steps on, and the flow has appended exactly one lead once it is Captured
\* and none before.
C1_ThreeActions ==
    FlowBegun =>
        /\ Stage = flow.clicks
        /\ LeadsThisFlow = (IF lead_captured THEN 1 ELSE 0)

\* C1, amended: the machine is Captured after exactly 3 accepted Submit/Skip
\* actions whatever the mix (a Submit that fails validation and an AskPhone
\* action whose save fails leave it in place and do not count), and the flow
\* has appended exactly one lead once it is Captured and none before.
C1_ThreeAcceptedActions ==
    FlowBegun =>
        /\ Stage = flow.accepted
        /\ flow.accepted <= flow.clicks
        /\ LeadsThisFlow = (IF lead_captured THEN 1 ELSE 0)

\* A completed flow that mixed Submit and Skip and had one Submit refused.
C1_Witness ==
    /\ lead_captured
    /\ flow.accepted = 3
    /\ flow.clicks = 4
    /\ LeadsThisFlow = 1
    /\ Get(lead_data, "name", <<>>) = <<"J", "o">>
    /\ Get(lead_data, "email", <<>>) = NO_EMAIL

\* C2: with no lead captured the capture mode is empty while fewer than 3
\* questions have been answered, and the handler that answers the 3rd one
\* appends its user and assistant turns, makes the count 3 and sets ask_name.
C2_TriggerAtThree ==
    /\ (~lead_captured /\ question_count < 3) => lead_capture_mode = None
    /\ (~lead_captured /\ question_count = 3 /\ op.name = "chat_input" /\ op.asked) =>
          /\ lead_capture_mode = "ask_name"
          /\ Len(chat_history) = 6
          /\ chat_history[5].role = "user"
          /\ chat_history[5].content.kind = "question"
          /\ chat_history[6].role = "assistant"

\* The state right after the 3rd question was answered.
C2_Witness ==
    /\ ~lead_captured
    /\ question_count = 3
    /\ op.name = "chat_input"
    /\ op.asked
    /\ lead_capture_mode = "ask_name"
    /\ chat_history[6].content.kind = "completion"

\* C3: a chat question submitted while the form is open is refused: ask is
\* not called and the chat history, the question count, the capture mode, the
\* lead data and the chatbots (their caches) stay as they are.
C3_ChatRefusedInForm ==
    [][(op'.name = "chat_input" /\ lead_capture_mode # None /\ ~lead_captured) =>
          /\ ~op'.asked
          /\ op'.requests = 0
          /\ UNCHANGED <<chat_history, question_count, lead_capture_mode,
                         lead_data, lead_captured, chatbots, storage>>]_vars

\* A refused question in the e-mail step.
C3_Witness ==
    /\ op.name = "chat_input"
    /\ ~op.asked
    /\ lead_capture_mode = "ask_email"
    /\ question_count = 3

\* C10: a Select, and a Create that made a chatbot, leave the session reset:
\* a current chatbot, no capture mode, lead_captured false, no lead data, an
\* empty chat history and a question count of 0.
C10_ResetOnCurrent ==
    [][(op'.name = "select"
        \/ storage'.next_chatbot_id # storage.next_chatbot_id) =>
          /\ current_company' \in DOMAIN chatbots'
          /\ lead_capture_mode' = None
          /\ lead_captured' = FALSE
          /\ lead_data' = <<>>
          /\ chat_history' = <<>>
          /\ question_count' = 0]_vars

\* A chatbot selected after a lead was captured.
C10_Witness ==
    /\ op.name = "select"
    /\ storage.leads # <<>>
    /\ ~lead_captured
    /\ question_count = 0

----------------------------------------------------------------------------
(* The scraper *)

\* The candidate fetches that answered 200 with a line of more than 25
\* characters.
C7_Good == {i \in 1..5 :
               /\ sc_resps[i].kind = "resp"
               /\ sc_resps[i].status = 200
               /\ \E k \in 1..Len(sc_resps[i].lines) : sc_resps[i].lines[k].len > 25}

C7_Url(i) ==
    (IF Len(sc_base) >= 4 /\ SubSeq(sc_base, 1, 4) = <<"h", "t", "t", "p">>
     THEN sc_base ELSE <<"h", "t", "t", "p", "s", ":", "/", "/">> \o sc_base)
    \o Paths[i]

\* C7: scrape_website never raises because of what the fetches did; the pages
\* it returns are exactly the candidate urls whose fetch answered 200 with at
\* least one line of more than 25 characters, each once; and when no fetch
\* did, it returns no page, no email and no phone.
C7_PagesAreGoodFetches ==
    /\ sc_pc # "raised"
    /\ \A k \in 1..Len(sc_pages) :
           \E i \in C7_Good : sc_pages[k].url = C7_Url(i) /\ sc_pages[k].content # <<>>
    /\ sc_pc = "returned" =>
           /\ {sc_result.pages[k].url : k \in 1..Len(sc_result.pages)}
                  = {C7_Url(i) : i \in C7_Good}
           /\ Len(sc_result.pages) = Cardinality(C7_Good)
           /\ C7_Good = {} =>
                  /\ sc_result.pages = <<>>
                  /\ sc_result.contact_info = [emails |-> <<>>, phones |-> <<>>]

\* A site with two good pages out of five, the later candidate first, and
\* a fetch that threw.
C7_Witness ==
    /\ sc_pc = "returned"
    /\ sc_resps = SiteUp
    /\ Len(sc_result.pages) = 2
    /\ sc_result.pages[1].url = C7_Url(4)
    /\ sc_result.pages[2].url = C7_Url(1)
    /\ sc_result.contact_info.emails # <<>>

\* C8: with a callback supplied, the callback is called once per candidate
\* fetch, after that fetch has finished, with the counts 1, 2, .. in that
\* order, a total of 5 and the url of that fetch; scrape_website returns
\* only after the 5 fetches have finished and the 5 calls were made.
C8_CallbackPerFetch ==
    /\ sc_cb =>
           /\ Len(sc_calls) = Len(sc_order)
           /\ \A k \in 1..Len(sc_calls) :
                  /\ sc_calls[k] = <<k, 5, C7_Url(sc_order[k])>>
                  /\ sc_order[k] \in sc_done
           /\ \A j, k \in 1..Len(sc_calls) : sc_calls[j][3] = sc_calls[k][3] => j = k
    /\ sc_pc = "returned" =>
           /\ sc_done = 1..5
           /\ sc_cb => Len(sc_calls) = 5

\* The five calls made in an order that is not the order of submission,
\* and the call returned.
C8_Witness ==
    /\ sc_pc = "returned"
    /\ sc_cb
    /\ Len(sc_calls) = 5
    /\ sc_order = <<3, 1, 5, 2, 4>>
    /\ sc_calls[1] = <<1, 5, C7_Url(3)>>

----------------------------------------------------------------------------
(* The lead records *)

PhoneAction == op.name \in {"submit_phone", "skip_phone"}

LastLead == storage.leads[Len(storage.leads)]

\* Text with no white space at either end.
Trimmed(s) == s = <<>> \/ (s[1] # " " /\ s[Len(s)] # " ")

\* What the record holds apart from the phone: the name and the e-mail
\* collected, the current chatbot's id and company, the session id, the
\* question count and the whole chat history.
C11_RecordCarries ==
    /\ LeadsThisFlow = 1
    /\ lead_captured
    /\ lead_capture_mode = None
    /\ LastLead.username = lead_data["name"]
    /\ LastLead.username # <<>> /\ Trimmed(LastLead.username)
    /\ LastLead.mailid = lead_data["email"]
    /\ LastLead.mailid # <<>> /\ Trimmed(LastLead.mailid)
    /\ LastLead.chatbot_id = chatbots[current_company].chatbot_id
    /\ LastLead.company_name = chatbots[current_company].company_name
    /\ LastLead.session_id = SESSION_ID
    /\ LastLead.questions_asked = question_count
    /\ LastLead.conversation = [json |-> chat_history]
    /\ chat_history # <<>>

\* C11, as stated: in AskPhone every Submit and every Skip saves one record
\* and moves to Captured, and the record's phone is the submitted value
\* trimmed, or "Not provided" after a Skip.
C11_PhoneActionSaves ==
    /\ PhoneAction =>
           /\ C11_RecordCarries
           /\ LastLead.phonenumber =
                  (IF op.name = "skip_phone" THEN NO_PHONE ELSE lead_data["phone"])
    /\ op.name = "skip_name" => lead_data["name"] = ANONYMOUS
    /\ op.name = "skip_email" => lead_data["email"] = NO_EMAIL

\* C11, amended: in AskPhone a Submit and a Skip whose save succeeds save one
\* record and move to Captured; the record's phone is the submitted value
\* trimmed when that is not empty, and "Not provided" when it is empty and
\* after a Skip; the name and the e-mail are the trimmed values submitted or
\* the placeholders of the skipped steps.
C11_PhoneActionSavesOnSuccess ==
    /\ (PhoneAction /\ op.save = "ok") =>
           /\ C11_RecordCarries
           /\ LastLead.phonenumber =
                  (IF op.name = "skip_phone" \/ lead_data["phone"] = <<>>
                   THEN NO_PHONE ELSE lead_data["phone"])
           /\ Trimmed(LastLead.phonenumber)
    /\ op.name = "skip_name" => lead_data["name"] = ANONYMOUS
    /\ op.name = "skip_email" => lead_data["email"] = NO_EMAIL

\* A record with a submitted name, e-mail and phone, each typed with white
\* space around it.
C11_Witness ==
    /\ op.name = "submit_phone"
    /\ op.save = "ok"
    /\ LastLead.username = <<"J", "o">>
    /\ LastLead.mailid = <<"a", "@", "b", ".", "c">>
    /\ LastLead.phonenumber = <<"5", "5">>
    /\ LastLead.questions_asked = 3
    /\ Len(LastLead.conversation.json) = 6

----------------------------------------------------------------------------
(* Validation in the form *)

Blank(s) == \A i \in 1..Len(s) : s[i] = " "

\* v is s without the white space at its two ends.
TrimOf(v, s) ==
    /\ Trimmed(v)
    /\ \E a \in 0..Len(s) :
          /\ a + Len(v) <= Len(s)
          /\ SubSeq(s, a + 1, a + Len(v)) = v
          /\ \A i \in (1..a) \cup ((a + Len(v) + 1)..Len(s)) : s[i] = " "

\* The format check: an "@", and a "." after the last "@".
C12_EmailFormat(s) ==
    \E i \in 1..Len(s) :
        /\ s[i] = "@"
        /\ \A j \in (i + 1)..Len(s) : s[j] # "@"
        /\ \E k \in (i + 1)..Len(s) : s[k] = "."

C12_Stays == UNCHANGED <<lead_capture_mode, lead_data, lead_captured, storage>>

\* C12: a Submit of an empty or blank name stays in AskName, and a Submit of
\* an e-mail that fails the format check stays in AskEmail, the lead data and
\* the store as they were; a Submit that passes stores the value trimmed and
\* moves one step on, saving nothing.
C12_SubmitValidated ==
    [][/\ \A name \in Inputs("form").names :
              SubmitName(name) =>
                  IF Blank(name) THEN C12_Stays
                  ELSE /\ lead_capture_mode' = "ask_email"
                       /\ TrimOf(lead_data'["name"], name)
                       /\ \A k \in DOMAIN lead_data : lead_data'[k] = lead_data[k]
                       /\ UNCHANGED <<lead_captured, storage>>
       /\ \A email \in Inputs("form").emails :
              SubmitEmail(email) =>
                  IF ~C12_EmailFormat(email) THEN C12_Stays
                  ELSE /\ lead_capture_mode' = "ask_phone"
                       /\ TrimOf(lead_data'["email"], email)
                       /\ lead_data'["name"] = lead_data["name"]
                       /\ UNCHANGED <<lead_captured, storage>>]_vars

\* An e-mail without a dot after its "@" refused, after a blank name was
\* refused and a name accepted.
C12_Witness ==
    /\ op.name = "submit_email"
    /\ lead_capture_mode = "ask_email"
    /\ flow.clicks = 3
    /\ flow.accepted = 1
    /\ lead_data = ("name" :> <<"J", "o">>)
    /\ storage.leads = <<>>

----------------------------------------------------------------------------
(* A failed save *)

\* C13: when save_lead reports failure to an ask_phone button, the machine
\* stays in AskPhone with lead_captured false, the form still shown, and the
\* store as it was; a Submit or Skip made again whose save succeeds adds
\* exactly one record, the only one of the flow, and captures the lead.
C13_FailedSaveRetried ==
    [][/\ op'.save = "failed" =>
              /\ op'.name \in {"submit_phone", "skip_phone"}
              /\ lead_capture_mode = "ask_phone"
              /\ lead_capture_mode' = "ask_phone"
              /\ ~lead_captured'
              /\ current_company' \in DOMAIN chatbots'
              /\ storage' = storage
       /\ (op.save = "failed" /\ op'.save = "ok") =>
              /\ Len(storage'.leads) = Len(storage.leads) + 1
              /\ Len(storage'.leads) - flow'.base = 1
              /\ SubSeq(storage'.leads, 1, Len(storage.leads)) = storage.leads
              /\ lead_captured'
              /\ lead_capture_mode' = None]_vars

\* A Skip that saved after a Submit of "55 " whose save had failed.
C13_Witness ==
    /\ op.name = "skip_phone"
    /\ op.save = "ok"
    /\ Get(lead_data, "phone", <<>>) = <<"5", "5">>
    /\ LastLead.phonenumber = NO_PHONE
    /\ LeadsThisFlow = 1
    /\ lead_captured

----------------------------------------------------------------------------
(* The contact lists *)

\* The matches of a pattern in the contents of the pages returned.
C14_Matches(field) ==
    UNION { UNION { {l[field][i] : i \in 1..Len(l[field])} :
                    l \in {p.content[k] : k \in 1..Len(p.content)} } :
            p \in {sc_result.pages[k] : k \in 1..Len(sc_result.pages)} }

C14_ListOk(list, field) ==
    /\ Len(list) <= 3
    /\ \A i, j \in 1..Len(list) : list[i] = list[j] => i = j
    /\ \A i \in 1..Len(list) : list[i] \in C14_Matches(field)
    /\ Cardinality(C14_Matches(field)) <= 3 => Len(list) = Cardinality(C14_Matches(field))
    /\ Cardinality(C14_Matches(field)) > 3 => Len(list) = 3

\* C14: the emails and the phones scrape_website returns hold no element
\* twice, at most 3 elements, and only matches found in the contents of the
\* pages, however many matches there are.
C14_ContactListsCapped ==
    sc_pc = "returned" =>
        /\ C14_ListOk(sc_result.contact_info.emails, "emails")
        /\ C14_ListOk(sc_result.contact_info.phones, "phones")

\* Four addresses found, one of them on two pages: three returned; one of
\* the two numbers found three times.
C14_Witness ==
    /\ sc_pc = "returned"
    /\ sc_resps = SiteContacts
    /\ Cardinality(C14_Matches("emails")) = 4
    /\ Len(sc_result.contact_info.emails) = 3
    /\ Len(sc_result.contact_info.phones) = 2
    /\ sc_result.contact_info.emails[1] = "info@x.io"

----------------------------------------------------------------------------
(* The ready flag *)

\* C15: ready is false from construction until initialize has returned True;
\* an initialize whose scrape raised returns False and leaves ready false
\* and the pages empty; an ask of an instance that is not ready returns the
\* not-ready message without an LLM call, a request or a change of the cache.
C15_ReadyOnlyAfterInitialize ==
    /\ ai_bot.ready <=> init_ret = "True"
    /\ init_ret # "True" => ai_bot.pages = <<>>
    /\ \A i \in 1..Len(calls) :
           ~calls[i].ready =>
               /\ calls[i].ret = Msg("not_ready", 0, <<>>)
               /\ ~calls[i].llm
               /\ calls[i].requests = 0
               /\ calls[i].cache_after = calls[i].cache_before

\* A question asked before initialize and one asked after it had failed.
C15_Witness ==
    /\ init_ret = "False"
    /\ ~ai_bot.ready
    /\ Len(calls) = 2
    /\ calls[1].question = Cost
    /\ calls[2].question = Hey
    /\ calls[2].ret = NOT_READY_MSG
    /\ ~calls[2].ready

----------------------------------------------------------------------------
(* The prompt *)

\* The lines of the first 3 pages.
C16_Context ==
    LET n == IF Len(ai_bot.pages) < 3 THEN Len(ai_bot.pages) ELSE 3
        RECURSIVE Join(_)
        Join(k) == IF k > n THEN <<>> ELSE ai_bot.pages[k].content \o Join(k + 1)
    IN  Join(1)

\* C16: the prompt ask sends is made of the company name, the first 3 pages
\* and the question alone: whatever was asked and answered before, the same
\* question gets the same prompt.
C16_PromptWithoutMemory ==
    /\ \A i \in LlmCalls :
           calls[i].prompt = [company |-> ai_bot.company_name,
                              context |-> C16_Context,
                              question |-> calls[i].question]
    /\ \A i, j \in LlmCalls :
           calls[i].question = calls[j].question => calls[i].prompt = calls[j].prompt

\* The same question asked first and again after another question was
\* answered, of a chatbot with five pages.
C16_Witness ==
    /\ Len(ai_bot.pages) = 5
    /\ Len(calls) = 2
    /\ calls[1].llm /\ calls[2].llm
    /\ calls[1].question = Cots
    /\ calls[2].question = Cost
    /\ calls[1].cache_after # <<>>
    /\ Len(calls[2].prompt.context) < Len(all_lines(ai_bot.pages))

----------------------------------------------------------------------------
(* The order of the capture states *)

\* Inactive 0, AskName 1, AskEmail 2, AskPhone 3, Captured 4.
C17_Pos(mode, captured) ==
    CASE captured -> 4
      [] mode = "ask_name" -> 1
      [] mode = "ask_email" -> 2
      [] mode = "ask_phone" -> 3
      [] OTHER -> 0

\* A Select, or a Create that made a chatbot.
C17_Reset == op'.name = "select" \/ storage'.next_chatbot_id # storage.next_chatbot_id

\* C17: a step that is not a reset leaves the capture state where it is or
\* moves it one state on along Inactive, AskName, AskEmail, AskPhone,
\* Captured; once Captured it stays Captured, whatever is asked.
C17_ForwardOneStep ==
    [][~C17_Reset =>
          LET before == C17_Pos(lead_capture_mode, lead_captured)
              after == C17_Pos(lead_capture_mode', lead_captured')
          IN  /\ after \in {before, before + 1}
              /\ lead_captured => (lead_captured' /\ lead_capture_mode' = None)
              /\ (lead_capture_mode # None /\ ~lead_captured') =>
                     lead_capture_mode' # None]_vars

\* A fourth question answered after the lead was captured.
C17_Witness ==
    /\ lead_captured
    /\ lead_capture_mode = None
    /\ op.name = "chat_input"
    /\ op.asked
    /\ question_count = 4

----------------------------------------------------------------------------
(* The lead store *)

C18_Prefix(old, new) ==
    /\ Len(old) <= Len(new)
    /\ \A k \in 1..Len(old) : new[k] = old[k]

\* C18: the leads stored have the ids 1, 2, .., n in the order they were
\* saved; a save that succeeds appends one record, holding the conversation
\* as it was then, and a save that fails and every other step leave the
\* stored records as they are.
C18_AppendOnly ==
    [][/\ C18_Prefix(storage.leads, storage'.leads)
       /\ Len(storage'.leads) =
              Len(storage.leads) + (IF op'.save = "ok" THEN 1 ELSE 0)
       /\ \A k \in 1..Len(storage'.leads) : storage'.leads[k].userid = k
       /\ storage'.next_lead_id = Len(storage'.leads) + 1
       /\ op'.save = "ok" =>
              storage'.leads[Len(storage'.leads)].conversation = [json |-> chat_history]
       /\ get_leads([leads |-> storage'.leads], AllChatbots) = storage'.leads
       /\ \A id \in {1, 2} :
              \A k \in 1..Len(get_leads([leads |-> storage'.leads], id)) :
                  get_leads([leads |-> storage'.leads], id)[k].chatbot_id = id]_vars

\* Two records of two chatbots and then a save that failed, the first
\* holding two turns though the chat history was since cleared and grew again.
C18_Witness ==
    /\ Len(storage.leads) = 2
    /\ op.save = "failed"
    /\ Len(storage.leads[1].conversation.json) = 2
    /\ Len(storage.leads[2].conversation.json) = 0
    /\ Len(chat_history) = 4
    /\ Len(get_leads([leads |-> storage.leads], 2)) = 1

----------------------------------------------------------------------------
(* The chat history *)

\* C19: the chat history holds a user turn and then an assistant turn for
\* each question counted, in that order, and nothing else.
C19_HistoryAlternates ==
    /\ Len(chat_history) = 2 * question_count
    /\ \A k \in 1..Len(chat_history) :
           chat_history[k].role = (IF k % 2 = 1 THEN "user" ELSE "assistant")
    /\ \A k \in 1..Len(chat_history) :
           (chat_history[k].content.kind = "question") <=> (k % 2 = 1)

\* Three questions answered, the form opened, and the current chatbot
\* deleted.
C19_Witness ==
    /\ op.name = "delete"
    /\ current_company = NoCompany
    /\ question_count = 3
    /\ Len(chat_history) = 6
    /\ lead_capture_mode = "ask_name"

----------------------------------------------------------------------------
(* The registry of the session *)

\* C20: the current chatbot is none or a key of the session's registry, so
\* the chat view's lookup finds its chatbot; every chatbot of the registry
\* is ready; a Create whose initialize failed registered nothing.
C20_CurrentInRegistry ==
    /\ current_company = <<>> \/ current_company \in DOMAIN chatbots
    /\ \A slug \in DOMAIN chatbots : slug # <<>> /\ chatbots[slug].ready
    /\ Cardinality(DOMAIN chatbots) < storage.next_chatbot_id

\* Two chatbots created, the current one deleted: none is current and the
\* other is still registered.
C20_Witness ==
    /\ op.name = "delete"
    /\ current_company = NoCompany
    /\ DOMAIN chatbots = { <<"a", "b">> }
    /\ storage.next_chatbot_id = 3

----------------------------------------------------------------------------
(* The capture mode, the question count and the captured flag together *)

\* C21: in every state of the session an open form (capture mode ask_name,
\* ask_email or ask_phone) goes with a question count of at least 3 and
\* lead_captured false, and lead_captured true goes with no capture mode.
C21_ModeCountCaptured ==
    /\ lead_capture_mode \in {None, "ask_name", "ask_email", "ask_phone"}
    /\ lead_capture_mode # None => question_count >= 3 /\ ~lead_captured
    /\ lead_captured => lead_capture_mode = None

\* The form at its last step after a save that failed, the chatbot then
\* deleted: the mode is still ask_phone, with 3 questions counted.
C21_Witness ==
    /\ lead_capture_mode = "ask_phone"
    /\ question_count = 3
    /\ ~lead_captured
    /\ op.name = "delete"
    /\ current_company = NoCompany
    /\ "phone" \in DOMAIN lead_data

----------------------------------------------------------------------------
(* What the saved records say of the conversation *)

\* C22: every lead record the form has saved records 3 questions and a
\* conversation of 6 turns; since the chatbot became current the form has
\* saved at most one record, and once it has saved one the lead is captured
\* and the form is closed, so that it cannot save another.
C22_SavedAtThree ==
    /\ \A i \in 1..Len(storage.leads) :
           /\ storage.leads[i].questions_asked = 3
           /\ Len(storage.leads[i].conversation.json) = 6
    /\ LeadsThisFlow \in {0, 1}
    /\ LeadsThisFlow = 1 <=> lead_captured
    /\ LeadsThisFlow = 1 => lead_capture_mode = None /\ question_count >= 3

\* A lead saved and a 4th question then answered in the same conversation:
\* the record still says 3 questions and 6 turns and the form stays closed.
C22_Witness ==
    /\ op.name = "chat_input"
    /\ op.asked
    /\ question_count = 4
    /\ Len(chat_history) = 8
    /\ LeadsThisFlow = 1
    /\ LastLead.questions_asked = 3
    /\ Len(LastLead.conversation.json) = 6
    /\ lead_capture_mode = None

----------------------------------------------------------------------------
(* The order of the pages *)

\* The pages the loop collects when it takes the futures in `order`.
C23_InOrder(order) == collect_pages(candidate_urls(sc_base), sc_resps, order)

C23_PageSet(pages) == {pages[k] : k \in 1..Len(pages)}

\* The text of the pages that ask puts in the prompt.
C23_Context(pages) == build_context(Take(pages, ContextPages))

\* C23, as stated: the pages returned are, as a set, those of the fetches
\* that gave a page, whatever the interleaving, and their order in the list
\* is the order in which the fetches finished.
C23_CompletionOrder ==
    sc_pc = "returned" =>
        /\ C23_PageSet(sc_result.pages) = C23_PageSet(C23_InOrder(<<1, 2, 3, 4, 5>>))
        /\ sc_result.pages = C23_InOrder(sc_fin)

\* C23, amended: the pages returned are, as a set, those of the fetches that
\* gave a page, whatever the interleaving, each once; their order in the
\* list is the order in which as_completed yielded the fetches: those that
\* had finished when the loop entered as_completed first, in any order, then
\* the others in the order they finished.
C23_YieldOrder ==
    /\ \A k \in 1..Len(sc_order) :
           IF k <= sc_snap THEN sc_order[k] \in FinishedAtEntry
           ELSE sc_order[k] = sc_fin[k]
    /\ sc_pages = C23_InOrder(sc_order)
    /\ sc_pc = "returned" =>
           /\ sc_result.pages = C23_InOrder(sc_order)
           /\ C23_PageSet(sc_result.pages) = C23_PageSet(C23_InOrder(<<1, 2, 3, 4, 5>>))
           /\ Len(sc_result.pages) = Len(C23_InOrder(<<1, 2, 3, 4, 5>>))

\* Five pages returned; the fetches of the base url and of /about had
\* finished, in that order, before the loop began, and the loop took /about
\* first; /contact finished before /services. The text put in the prompt is
\* not that of a scrape whose fetches finish in the order of submission.
C23_Witness ==
    /\ sc_pc = "returned"
    /\ sc_resps = SiteAllUp
    /\ Len(sc_result.pages) = 5
    /\ sc_snap = 2
    /\ sc_fin = <<1, 2, 4, 3, 5>>
    /\ sc_order = <<2, 1, 4, 3, 5>>
    /\ sc_result.pages # C23_InOrder(sc_fin)
    /\ C23_Context(sc_result.pages) # C23_Context(C23_InOrder(<<1, 2, 3, 4, 5>>))
    /\ C23_PageSet(Take(sc_result.pages, ContextPages))
           # C23_PageSet(Take(C23_InOrder(<<1, 2, 3, 4, 5>>), ContextPages))

====
